---- MODULE Spec2Model ----
(***************************************************************************)
(* ragscope: the query-evaluation pipeline of the two applications of the  *)
(* repository, app/ (app/query.py with app/evaluate.py) and src/           *)
(* (src/query.py with src/evaluate.py), over the MLflow fluent API as the  *)
(* Experiment Recorder.                                                    *)
(*                                                                         *)
(* A process runs one of the two applications (impl).  handle_query holds  *)
(* no await, so the event loop runs one invocation to its end before the   *)
(* next one starts; an invocation is a sequence of steps (pc), one per     *)
(* call to a collaborator.  Collaborators answer nondeterministically:     *)
(*   - the vector store: construction, count() and retrieval may raise;    *)
(*   - the generation and the judge model: invoke() may raise;             *)
(*   - the recorder: the writes set_tag, log_param, log_metric, log_text   *)
(*     may raise (a value over MLflow's length limit, a transport error);  *)
(*     start_run and end_run do what MLflow documents.                     *)
(*                                                                         *)
(* Texts are sequences of characters or of tokens.  Scores are in          *)
(* thousandths: 1000 is 1.0, -1000 is -1.0.                                *)
(***************************************************************************)
EXTENDS Integers, Sequences, FiniteSets, TLC

\* ------------------------------------------------------------------ bounds
MaxInvocations == 2
MaxTopK == 2
MaxDelay == 1
MaxTextLen == 4
MaxCallers == 3

\* --------------------------------------------------------------- constants
Sentinel == -1000

Questions == { <<"who?">>, <<"why", "?">> }
ChunkA == <<"A">>
ChunkB == <<"B", "b">>
Collections == { <<>>, <<ChunkA>>, <<ChunkA, ChunkB>> }
Answers == { <<"Paris", ".">> }
ExcMessages == { <<"boom">> }
Responses == { <<"0", ".", "8", "5">>,
               <<"S", "c", "o", "r", "e", ":", " ", "1">>,
               <<"1", ".", "5">>,
               <<"g", "o", "o", "d">> }

OLLAMA_MODEL == "llama3.2"
OLLAMA_JUDGE_MODEL == "mistral"
NotFoundDetail == <<"No documents found. Please ingest documents first.">>

\* The three judge prompts of app/evaluate.py, in the order of the dict.
MetricNames == <<"faithfulness_score", "answer_relevance_score",
                 "context_relevance_score">>
\* The four scorers of src/evaluate.py.
Scorers == <<"Correctness", "AnswerRelevancy", "Hallucination", "Safety">>

VARIABLES
    impl,            \* "app" or "src": the application this process runs
    ticking,         \* whether the clock of this behaviour advances
    collection,      \* the chunk texts the vector store holds
    llm,             \* _llm of query.py: 0 is None
    judge_llm,       \* _judge_llm of evaluate.py: 0 is None
    handles,         \* the model handles constructed so far
    runs,            \* the recorder: run_id -> [status, owner]
    active,          \* the recorder's stack of active runs (run ids)
    now,             \* time.monotonic()
    invocations,     \* the handle_query invocations started so far
    pc,              \* where the current invocation stands
    request,         \* QueryRequest: [question, top_k]
    query_id,
    start_time,
    run_id,
    answer,
    sources,
    context,
    error_occurred,
    latency_ms,
    docs,            \* the documents the retriever returned
    idx,             \* position in the writes / in the prompts
    score,           \* the score of the metric at hand
    scores,          \* the scores dict of run_judge_evaluations
    events,          \* what this invocation did, in order
    outcome,         \* how control left handle_query: "none" while inside
    detail,          \* the detail of the HTTPException raised
    response,        \* the QueryResponse returned
    svc,             \* where a call outside handle_query stands: "off" if none
    parse_text,      \* _parse_score: its argument
    parse_result,    \* _parse_score: what it returned
    chroma_status,   \* check_health: the status of the vector store
    ollama_status,   \* check_health: the status of the model service
    health,          \* the HealthResponse returned
    filename,        \* ingest_document: file.filename
    suffix,          \* ingest_document: the extension taken from it
    chunks,          \* ingest_document: the chunks of the document
    ingested,        \* the IngestResponse returned
    w_pc,            \* worker processes: where each stands in handle_query
    w_active,        \* worker processes: the active run stack of each
    w_run,           \* worker processes: the run_id each holds
    h_fn,            \* racing callers: "get_llm" or "get_judge_llm"
    h_pc,            \* racing callers: where each stands in that function
    h_new,           \* racing callers: the handle each has constructed
    h_ret,           \* racing callers: the handle each got back
    h_after          \* racing callers: the calls over when each one started

procVars == <<impl, ticking, collection, llm, judge_llm, handles>>
recVars == <<runs, active>>
locVars == <<request, query_id, start_time, run_id, answer, sources, context,
             error_occurred, latency_ms, docs>>
judgeVars == <<idx, score, scores>>
outVars == <<outcome, detail, response>>
parseVars == <<parse_text, parse_result>>
healthVars == <<chroma_status, ollama_status, health>>
ingestVars == <<filename, suffix, chunks, ingested>>
workerVars == <<w_pc, w_active, w_run>>
callerVars == <<h_fn, h_pc, h_new, h_ret, h_after>>
auxVars == <<svc, parseVars, healthVars, ingestVars, workerVars, callerVars>>
vars == <<procVars, recVars, now, invocations, pc, locVars, judgeVars,
          events, outVars, auxVars>>

\* ----------------------------------------------------------------- helpers
Delays == IF ticking THEN 0..MaxDelay ELSE {0}

Last(s) == s[Len(s)]
Front(s) == SubSeq(s, 1, Len(s) - 1)

\* A join that keeps the first text only.
JoinFirstOnly(texts, sep) == IF texts = <<>> THEN <<>> ELSE texts[1]

RECURSIVE Join(_, _)
\* sep.join(texts)
Join(texts, sep) ==
    IF texts = <<>> THEN <<>>
    ELSE IF Len(texts) = 1 THEN texts[1]
    ELSE texts[1] \o sep \o Join(Tail(texts), sep)

BlankLine == <<"\n", "\n">>

\* The sequences of distinct chunks of the collection, at most k long: what
\* a retrieval of the k nearest chunks may return, in the store's order.
Retrievals(k) ==
    LET n == Len(collection)
        picks == UNION { { p \in [1..m -> 1..n] :
                             \A a, b \in 1..m : a # b => p[a] # p[b] } :
                         m \in 0..k }
    IN  { [i \in 1..Len(p) |-> collection[p[i]]] : p \in picks }

Ev(e, r, k, v) == [e |-> e, run |-> r, key |-> k, val |-> v]

\* ------------------------------------------------ the recorder (MLflow)
\* mlflow.start_run(): a new run, RUNNING, pushed on the active stack.
NewRunId == Len(runs) + 1
StartRunRuns == Append(runs, [status |-> "RUNNING", owner |-> invocations])
StartRunActive == Append(active, NewRunId)

\* mlflow.start_run(run_id=r): the existing run r is RUNNING again and active.
ResumeRunRuns(r) == [runs EXCEPT ![r].status = "RUNNING"]
ResumeRunActive(r) == Append(active, r)

\* mlflow.end_run(status): the active run, if any, is popped and terminated.
EndRunRuns(rs, act, status) ==
    IF act = <<>> THEN rs ELSE [rs EXCEPT ![Last(act)].status = status]
EndRunActive(act) == IF act = <<>> THEN act ELSE Front(act)
EndRunEvents(act) ==
    IF act = <<>> THEN <<>> ELSE << Ev("close", Last(act), "", 0) >>

\* mlflow.active_run()
ActiveRun == IF active = <<>> THEN 0 ELSE Last(active)

\* ------------------------------------------------- app/evaluate.py parsing
Digits == {"0", "1", "2", "3", "4", "5", "6", "7", "8", "9"}
DigitVal(c) ==
    CASE c = "0" -> 0 [] c = "1" -> 1 [] c = "2" -> 2 [] c = "3" -> 3
      [] c = "4" -> 4 [] c = "5" -> 5 [] c = "6" -> 6 [] c = "7" -> 7
      [] c = "8" -> 8 [] c = "9" -> 9

\* The first index from i on that holds no digit: where \d* stops.
RECURSIVE DigitsEnd(_, _)
DigitsEnd(t, i) ==
    IF i <= Len(t) /\ t[i] \in Digits THEN DigitsEnd(t, i + 1) ELSE i

\* int() of the digits t[a..b-1]
RECURSIVE IntOf(_, _, _)
IntOf(t, a, b) ==
    IF a >= b THEN 0 ELSE IntOf(t, a, b - 1) * 10 + DigitVal(t[b - 1])

\* The digits t[a..b-1] after the point, as thousandths.
FracOf(t, a, b) ==
    LET d(k) == IF a + k < b THEN DigitVal(t[a + k]) ELSE 0
    IN  d(0) * 100 + d(1) * 10 + d(2)

\* re.search(r"(\d+\.?\d*)", text): [found, start, stop, point], the match
\* being text[start..stop-1] and point the index of its ".", or 0.
SearchNumber(t) ==
    LET starts == { i \in 1..Len(t) : t[i] \in Digits }
    IN  IF starts = {} THEN [found |-> FALSE, start |-> 0, stop |-> 0, point |-> 0]
        ELSE LET s == CHOOSE i \in starts : \A j \in starts : i <= j
                 e1 == DigitsEnd(t, s)
                 dot == e1 <= Len(t) /\ t[e1] = "."
                 e2 == IF dot THEN DigitsEnd(t, e1 + 1) ELSE e1
             IN  [found |-> TRUE, start |-> s, stop |-> e2,
                  point |-> IF dot THEN e1 ELSE 0]

\* float(match.group(1)), in thousandths
FloatOf(t, m) ==
    IF m.point = 0 THEN IntOf(t, m.start, m.stop) * 1000
    ELSE IntOf(t, m.start, m.point) * 1000 + FracOf(t, m.point + 1, m.stop)

\* 0.0 <= value <= 1.0, exact whatever the number of digits after the point
InUnitRange(t, m) ==
    LET whole == IF m.point = 0 THEN IntOf(t, m.start, m.stop)
                 ELSE IntOf(t, m.start, m.point)
        after == IF m.point = 0 THEN {} ELSE (m.point + 1)..(m.stop - 1)
    IN  \/ whole = 0
        \/ whole = 1 /\ \A i \in after : t[i] = "0"

\* _parse_score(text); strip() removes no character of a match
ParseScore(t) ==
    LET m == SearchNumber(t)
    IN  IF m.found /\ InUnitRange(t, m) THEN FloatOf(t, m) ELSE Sentinel

\* ------------------------------------------------------------ get_llm
\* get_llm() / get_judge_llm(): the cached handle, constructed when None.
GetHandle(cached) == IF cached = 0 THEN handles + 1 ELSE cached
GetHandleCount(cached) == IF cached = 0 THEN handles + 1 ELSE handles

\* ------------------------------------------------------------------ Init
NoResponse == [answer |-> <<>>, sources |-> <<>>, query_id |-> 0]
NoRequest == [question |-> <<>>, top_k |-> 1]

\* The process has started: no handle is cached, the recorder holds no run,
\* the vector store holds what was ingested.
Started ==
    /\ impl \in {"app", "src"}
    /\ collection \in Collections
    /\ llm = 0 /\ judge_llm = 0 /\ handles = 0
    /\ runs = <<>> /\ active = <<>>
    /\ now = 0
    /\ invocations = 0
    /\ pc = "idle"
    /\ request = NoRequest
    /\ query_id = 0 /\ start_time = 0 /\ run_id = 0
    /\ answer = <<>> /\ sources = <<>> /\ context = <<>>
    /\ error_occurred = FALSE /\ latency_ms = 0 /\ docs = <<>>
    /\ idx = 0 /\ score = 0 /\ scores = <<>>
    /\ events = <<>>
    /\ outcome = "none" /\ detail = <<>> /\ response = NoResponse

NoHealth == [status |-> "", chromadb |-> "", ollama |-> ""]
NoIngest == [status |-> "", chunks_stored |-> 0, filename |-> <<>>]

\* No call of _parse_score, check_health, ingest_document is under way.
ParseOff == parse_text = <<>> /\ parse_result = 0
HealthOff == chroma_status = "" /\ ollama_status = "" /\ health = NoHealth
IngestOff ==
    filename = <<>> /\ suffix = <<>> /\ chunks = <<>> /\ ingested = NoIngest
\* The worker processes overlapping invocations run in: handle_query never
\* awaits, so one process runs its invocations one after the other.
Workers == {1, 2}
WorkersOff ==
    /\ w_pc = [w \in Workers |-> "off"]
    /\ w_active = [w \in Workers |-> <<>>]
    /\ w_run = [w \in Workers |-> 0]
\* The threads that may call get_llm or get_judge_llm at the same time.
Callers == 1..MaxCallers
CallersOff ==
    /\ h_fn = "" /\ h_pc = [c \in Callers |-> "off"]
    /\ h_new = [c \in Callers |-> 0] /\ h_ret = [c \in Callers |-> 0]
    /\ h_after = [c \in Callers |-> {}]
AuxOff ==
    /\ svc = "off" /\ ParseOff /\ HealthOff /\ IngestOff /\ WorkersOff
    /\ CallersOff

\* The behaviours in which no call takes a measurable time.
Init == ticking = FALSE /\ Started /\ AuxOff

\* The behaviours in which a call to a collaborator may take time.
InitClock == ticking = TRUE /\ Started /\ AuxOff

\* A request reaches handle_query: pydantic has validated it (question of
\* at least one character, top_k >= 1), and the locals are fresh.
Enter(q, k, first) ==
    /\ pc \in {"idle", "done"}
    /\ invocations < MaxInvocations
    /\ invocations' = invocations + 1
    /\ request' = [question |-> q, top_k |-> k]
    /\ answer' = <<>> /\ sources' = <<>> /\ context' = <<>>
    /\ error_occurred' = FALSE /\ latency_ms' = 0 /\ docs' = <<>>
    /\ run_id' = 0
    /\ idx' = 0 /\ score' = 0 /\ scores' = <<>>
    /\ events' = <<>>
    /\ outcome' = "none" /\ detail' = <<>> /\ response' = NoResponse
    /\ pc' = first

\* Control leaves handle_query with an HTTPException.
RaiseHttp(kind, text) ==
    /\ outcome' = kind /\ detail' = text /\ response' = NoResponse
    /\ pc' = "done"

\* --------------------------------------------------- app/query.py
\* query_id = str(uuid.uuid4()); start_time = time.monotonic()
AppEnter ==
    /\ impl = "app"
    /\ \E q \in Questions, k \in 1..MaxTopK : Enter(q, k, "a_open")
    /\ query_id' = invocations + 1
    /\ start_time' = now
    /\ UNCHANGED <<auxVars, procVars, recVars, now>>

\* mlflow.set_experiment(...); run = mlflow.start_run(); run_id = ...
AppOpenRun ==
    /\ pc = "a_open"
    /\ \E d \in Delays : now' = now + d
    /\ runs' = StartRunRuns
    /\ active' = StartRunActive
    /\ run_id' = NewRunId
    /\ events' = Append(events, Ev("create", NewRunId, "", 0))
    /\ pc' = "a_end"
    /\ UNCHANGED <<auxVars, procVars, invocations, request, query_id, start_time,
                   answer, sources, context, error_occurred, latency_ms, docs,
                   judgeVars, outVars>>

\* mlflow.end_run()
AppEndRun ==
    /\ pc = "a_end"
    /\ runs' = EndRunRuns(runs, active, "FINISHED")
    /\ active' = EndRunActive(active)
    /\ events' = events \o EndRunEvents(active)
    /\ pc' = "a_store"
    /\ UNCHANGED <<auxVars, procVars, now, invocations, locVars, judgeVars, outVars>>

\* except Exception as exc: error_occurred = True; answer = f"Error: {exc}"
AppCatch(msg) ==
    /\ error_occurred' = TRUE
    /\ answer' = <<"Error: ">> \o msg
    /\ pc' = "a_latency"

\* vectorstore = _get_vectorstore()
AppGetVectorstore ==
    /\ pc = "a_store"
    /\ \/ /\ pc' = "a_count"
          /\ UNCHANGED <<answer, error_occurred>>
       \/ \E msg \in ExcMessages : AppCatch(msg)
    /\ UNCHANGED <<auxVars, procVars, recVars, now, invocations, request, query_id,
                   start_time, run_id, sources, context, latency_ms, docs,
                   judgeVars, events, outVars>>

\* collection_count = vectorstore._collection.count(), 0 when it raises
AppCollectionCount(raises) == IF raises THEN 0 ELSE Len(collection)

\* AppCount without the fail-fast check of collection_count
AppCountUnchecked ==
    /\ pc = "a_count"
    /\ \E raises \in BOOLEAN :
         events' = Append(events, Ev("count", 0, "",
                                     IF raises THEN -1 ELSE Len(collection)))
    /\ pc' = "a_llm"
    /\ UNCHANGED <<auxVars, procVars, recVars, now, invocations, locVars, judgeVars,
                   outVars>>

\* the count, and the HTTPException(404) of an empty collection, which
\* "except HTTPException: raise" lets through
AppCount ==
    /\ pc = "a_count"
    /\ \E raises \in BOOLEAN :
         /\ events' = Append(events, Ev("count", 0, "",
                                        IF raises THEN -1 ELSE Len(collection)))
         /\ IF AppCollectionCount(raises) = 0
            THEN RaiseHttp("http404", NotFoundDetail)
            ELSE pc' = "a_llm" /\ UNCHANGED outVars
    /\ UNCHANGED <<auxVars, procVars, recVars, now, invocations, locVars, judgeVars>>

\* retriever = ...; llm = get_llm(); qa_chain = RetrievalQA.from_chain_type
AppGetLlm ==
    /\ pc = "a_llm"
    /\ llm' = GetHandle(llm)
    /\ handles' = GetHandleCount(llm)
    /\ pc' = "a_retrieve"
    /\ UNCHANGED <<auxVars, impl, ticking, collection, judge_llm, recVars, now,
                   invocations, locVars, judgeVars, events, outVars>>

\* qa_chain.invoke: the retriever fetches the top_k nearest chunks
AppRetrieve ==
    /\ pc = "a_retrieve"
    /\ \/ \E r \in Retrievals(request.top_k) :
            /\ docs' = r
            /\ events' = Append(events, Ev("retrieve", 0, "", Len(r)))
            /\ pc' = "a_generate"
            /\ UNCHANGED <<answer, error_occurred>>
       \/ \E msg \in ExcMessages :
            /\ AppCatch(msg)
            /\ events' = Append(events, Ev("retrieve_exc", 0, "", 0))
            /\ UNCHANGED docs
    /\ UNCHANGED <<auxVars, procVars, recVars, now, invocations, request, query_id,
                   start_time, run_id, sources, context, latency_ms,
                   judgeVars, outVars>>

\* qa_chain.invoke: the generation model answers; answer = result["result"];
\* sources = [doc.page_content for doc in source_docs]
AppGenerate ==
    /\ pc = "a_generate"
    /\ \E d \in Delays : now' = now + d
    /\ \/ \E a \in Answers :
            /\ answer' = a
            /\ sources' = docs
            /\ events' = events \o << Ev("gen_call", 0, "", now),
                                      Ev("gen_ret", 0, "", now') >>
            /\ pc' = "a_latency"
            /\ UNCHANGED error_occurred
       \/ \E msg \in ExcMessages :
            /\ AppCatch(msg)
            /\ events' = events \o << Ev("gen_call", 0, "", now),
                                      Ev("gen_exc", 0, "", now') >>
            /\ UNCHANGED sources
    /\ UNCHANGED <<auxVars, procVars, recVars, invocations, request, query_id,
                   start_time, run_id, context, latency_ms, docs,
                   judgeVars, outVars>>

\* latency_ms = (time.monotonic() - start_time) * 1000
\* with mlflow.start_run(run_id=run_id):
AppResumeRun ==
    /\ pc = "a_latency"
    /\ latency_ms' = (now - start_time) * 1000
    /\ runs' = ResumeRunRuns(run_id)
    /\ active' = ResumeRunActive(run_id)
    /\ events' = Append(events, Ev("open", run_id, "", 0))
    /\ idx' = 1
    /\ pc' = "a_record"
    /\ UNCHANGED <<auxVars, procVars, now, invocations, request, query_id, start_time,
                   run_id, answer, sources, context, error_occurred, docs,
                   score, scores, outVars>>

W(op, k, v) == [op |-> op, key |-> k, val |-> v]

\* the body of the with block, in order
AppWrites ==
    << W("set_tag", "query_id", query_id),
       W("set_tag", "generation_model", OLLAMA_MODEL),
       W("set_tag", "judge_model", OLLAMA_JUDGE_MODEL) >>
    \o (IF error_occurred THEN << W("set_tag", "error", "true") >> ELSE <<>>)
    \o << W("log_param", "question", request.question),
          W("log_param", "top_k", request.top_k),
          W("log_param", "model_name", OLLAMA_MODEL),
          W("log_param", "query_id", query_id),
          W("log_metric", "latency_ms", latency_ms),
          W("log_metric", "num_chunks_retrieved", Len(sources)),
          W("log_metric", "answer_length_chars", Len(answer)),
          W("log_text", "answer.txt", answer) >>

\* An exception leaves a with mlflow.start_run(...) block: the run ends
\* FAILED and the exception goes on, out of handle_query.
WithRaises(k) ==
    /\ runs' = EndRunRuns(runs, active, "FAILED")
    /\ active' = EndRunActive(active)
    /\ events' = events \o << Ev("write_exc", ActiveRun, k, 0) >>
                        \o EndRunEvents(active)
    /\ outcome' = "exception" /\ detail' = <<>> /\ response' = NoResponse
    /\ pc' = "done"

\* one write of the with block: to the active run, or it raises
AppRecord ==
    /\ pc = "a_record"
    /\ LET w == AppWrites[idx]
       IN  \/ /\ events' = Append(events, Ev(w.op, ActiveRun, w.key, w.val))
              /\ idx' = idx + 1
              /\ pc' = IF idx = Len(AppWrites) THEN "a_recorded" ELSE "a_record"
              /\ UNCHANGED <<recVars, outVars>>
           \/ /\ WithRaises(w.key)
              /\ UNCHANGED idx
    /\ UNCHANGED <<auxVars, procVars, now, invocations, locVars, score, scores>>

\* the with block ends: mlflow.end_run()
AppRecorded ==
    /\ pc = "a_recorded"
    /\ runs' = EndRunRuns(runs, active, "FINISHED")
    /\ active' = EndRunActive(active)
    /\ events' = events \o EndRunEvents(active)
    /\ pc' = "a_judge"
    /\ UNCHANGED <<auxVars, procVars, now, invocations, locVars, judgeVars, outVars>>

\* AppJudges without the guard: the judge runs whatever happened before
AppJudgesUnguarded == TRUE

\* if not error_occurred and sources:
AppJudges == ~error_occurred /\ sources # <<>>

\* context = "\n\n".join(sources); run_judge_evaluations(...)
AppJudgeGate ==
    /\ pc = "a_judge"
    /\ IF AppJudges
       THEN context' = Join(sources, BlankLine) /\ pc' = "j_enter"
       ELSE UNCHANGED context /\ pc' = "a_return"
    /\ UNCHANGED <<auxVars, procVars, recVars, now, invocations, request, query_id,
                   start_time, run_id, answer, sources, error_occurred,
                   latency_ms, docs, judgeVars, events, outVars>>

\* AppReturn that answers with an identifier generated anew.
AppReturnFreshId ==
    /\ pc = "a_return"
    /\ IF error_occurred
       THEN RaiseHttp("http500", answer)
       ELSE /\ outcome' = "ok" /\ detail' = <<>>
            /\ response' = [answer |-> answer, sources |-> sources,
                            query_id |-> query_id + 1]
            /\ pc' = "done"
    /\ UNCHANGED <<auxVars, procVars, recVars, now, invocations, locVars, judgeVars,
                   events>>

\* if error_occurred: raise HTTPException(500, detail=answer)
\* return QueryResponse(answer, sources, query_id)
AppReturn ==
    /\ pc = "a_return"
    /\ IF error_occurred
       THEN RaiseHttp("http500", answer)
       ELSE /\ outcome' = "ok" /\ detail' = <<>>
            /\ response' = [answer |-> answer, sources |-> sources,
                            query_id |-> query_id]
            /\ pc' = "done"
    /\ UNCHANGED <<auxVars, procVars, recVars, now, invocations, locVars, judgeVars,
                   events>>

\* --------------------------------------------------- app/evaluate.py
WarningTag(m) ==
    CASE m = "faithfulness_score" -> "faithfulness_score_parse_warning"
      [] m = "answer_relevance_score" -> "answer_relevance_score_parse_warning"
      [] m = "context_relevance_score" -> "context_relevance_score_parse_warning"

\* judge = get_judge_llm(); scores = {}; prompts = {...}
\* with mlflow.start_run(run_id=run_id):
AppJudgeEnter ==
    /\ pc = "j_enter"
    /\ \E d \in Delays : now' = now + d
    /\ judge_llm' = GetHandle(judge_llm)
    /\ handles' = GetHandleCount(judge_llm)
    /\ scores' = <<>>
    /\ runs' = ResumeRunRuns(run_id)
    /\ active' = ResumeRunActive(run_id)
    /\ events' = Append(events, Ev("open", run_id, "", 0))
    /\ idx' = 1
    /\ pc' = "j_invoke"
    /\ UNCHANGED <<auxVars, impl, ticking, collection, llm, invocations, locVars,
                   score, outVars>>

\* AppJudgeInvoke without the try/except: what the judge raises leaves the
\* with block and handle_query
AppJudgeInvokeUncaught ==
    /\ pc = "j_invoke"
    /\ \/ \E r \in Responses :
            /\ score' = ParseScore(r)
            /\ events' = events \o << Ev("judge_call", 0, MetricNames[idx], 0),
                                      Ev("judge_ret", 0, MetricNames[idx], r) >>
            /\ pc' = IF ParseScore(r) = Sentinel THEN "j_warn" ELSE "j_log"
            /\ UNCHANGED <<recVars, outVars>>
       \/ /\ runs' = EndRunRuns(runs, active, "FAILED")
          /\ active' = EndRunActive(active)
          /\ events' = events \o << Ev("judge_call", 0, MetricNames[idx], 0),
                                    Ev("judge_exc", 0, MetricNames[idx], 0) >>
                              \o EndRunEvents(active)
          /\ outcome' = "exception" /\ detail' = <<>> /\ response' = NoResponse
          /\ pc' = "done"
          /\ UNCHANGED score
    /\ UNCHANGED <<auxVars, procVars, now, invocations, locVars, idx, scores>>

\* response = judge.invoke(prompt); score = _parse_score(response)
\* except Exception: score = -1.0
AppJudgeInvoke ==
    /\ pc = "j_invoke"
    /\ \/ \E r \in Responses :
            /\ score' = ParseScore(r)
            /\ events' = events \o << Ev("judge_call", 0, MetricNames[idx], 0),
                                      Ev("judge_ret", 0, MetricNames[idx], r) >>
            /\ pc' = IF ParseScore(r) = Sentinel THEN "j_warn" ELSE "j_log"
       \/ /\ score' = Sentinel
          /\ events' = events \o << Ev("judge_call", 0, MetricNames[idx], 0),
                                    Ev("judge_exc", 0, MetricNames[idx], 0) >>
          /\ pc' = "j_tag"
    /\ UNCHANGED <<auxVars, procVars, recVars, now, invocations, locVars, idx, scores,
                   outVars>>

\* if score == -1.0: mlflow.set_tag(f"{metric_name}_parse_warning", "true"),
\* inside the try: what it raises is caught by the except of the loop
AppJudgeWarn ==
    /\ pc = "j_warn"
    /\ \/ /\ events' = Append(events, Ev("set_tag", ActiveRun,
                                          WarningTag(MetricNames[idx]), "true"))
          /\ pc' = "j_log"
          /\ UNCHANGED score
       \/ /\ events' = Append(events, Ev("write_exc", ActiveRun,
                                          WarningTag(MetricNames[idx]), 0))
          /\ score' = Sentinel
          /\ pc' = "j_tag"
    /\ UNCHANGED <<auxVars, procVars, recVars, now, invocations, locVars, idx, scores,
                   outVars>>

\* The except clause without its set_tag: the sentinel goes untagged.
AppJudgeTagMissing ==
    /\ pc = "j_tag"
    /\ pc' = "j_log"
    /\ UNCHANGED <<auxVars, procVars, recVars, now, invocations, locVars, idx,
                   score, scores, events, outVars>>

\* except Exception: ...; mlflow.set_tag(f"{metric_name}_parse_warning",
\* "true"): nothing catches what it raises
AppJudgeTag ==
    /\ pc = "j_tag"
    /\ \/ /\ events' = Append(events, Ev("set_tag", ActiveRun,
                                          WarningTag(MetricNames[idx]), "true"))
          /\ pc' = "j_log"
          /\ UNCHANGED <<recVars, outVars>>
       \/ WithRaises(WarningTag(MetricNames[idx]))
    /\ UNCHANGED <<auxVars, procVars, now, invocations, locVars, idx, score, scores>>

\* scores[metric_name] = score
PutScore(d, m, v) ==
    [k \in DOMAIN d \cup {m} |-> IF k = m THEN v ELSE d[k]]

\* AppJudgeLog that logs a score only when one was parsed: the sentinel is
\* dropped
AppJudgeLogDropsSentinel ==
    /\ pc = "j_log"
    /\ scores' = PutScore(scores, MetricNames[idx], score)
    /\ events' = IF score = Sentinel THEN events
                 ELSE Append(events, Ev("log_metric", ActiveRun,
                                        MetricNames[idx], score))
    /\ idx' = idx + 1
    /\ pc' = IF idx = Len(MetricNames) THEN "j_exit" ELSE "j_invoke"
    /\ UNCHANGED <<auxVars, procVars, recVars, now, invocations, locVars, score,
                   outVars>>

\* scores[metric_name] = score; mlflow.log_metric(metric_name, score)
AppJudgeLog ==
    /\ pc = "j_log"
    /\ scores' = PutScore(scores, MetricNames[idx], score)
    /\ \/ /\ events' = Append(events, Ev("log_metric", ActiveRun,
                                          MetricNames[idx], score))
          /\ idx' = idx + 1
          /\ pc' = IF idx = Len(MetricNames) THEN "j_exit" ELSE "j_invoke"
          /\ UNCHANGED <<recVars, outVars>>
       \/ /\ WithRaises(MetricNames[idx])
          /\ UNCHANGED idx
    /\ UNCHANGED <<auxVars, procVars, now, invocations, locVars, score>>

\* the with block ends: mlflow.end_run(); return scores
AppJudgeExit ==
    /\ pc = "j_exit"
    /\ runs' = EndRunRuns(runs, active, "FINISHED")
    /\ active' = EndRunActive(active)
    /\ events' = events \o EndRunEvents(active)
    /\ pc' = "a_return"
    /\ UNCHANGED <<auxVars, procVars, now, invocations, locVars, judgeVars, outVars>>

\* --------------------------------------------------- src/query.py
\* SrcFinally without its end_run: a handler that forgot the finally
SrcFinallyMissing(evs) ==
    /\ UNCHANGED <<runs, active>>
    /\ events' = events \o evs

\* finally: mlflow.end_run(), on the way out of handle_query
SrcFinally(evs) ==
    /\ runs' = EndRunRuns(runs, active, "FINISHED")
    /\ active' = EndRunActive(active)
    /\ events' = events \o evs \o EndRunEvents(active)

\* except Exception as exc: raise HTTPException(500, detail=str(exc))
SrcCatch(msg, evs) ==
    /\ RaiseHttp("http500", msg)
    /\ SrcFinally(evs)

\* mlflow.set_tracking_uri(...); mlflow.set_experiment("ragscope")
SrcEnter ==
    /\ impl = "src"
    /\ \E q \in Questions, k \in 1..MaxTopK : Enter(q, k, "s_stale")
    /\ UNCHANGED <<auxVars, procVars, recVars, now, query_id, start_time>>

\* if mlflow.active_run(): mlflow.end_run()
SrcEndStale ==
    /\ pc = "s_stale"
    /\ runs' = EndRunRuns(runs, active, "FINISHED")
    /\ active' = EndRunActive(active)
    /\ events' = events \o EndRunEvents(active)
    /\ pc' = "s_open"
    /\ UNCHANGED <<auxVars, procVars, now, invocations, locVars, judgeVars, outVars>>

\* mlflow.start_run(run_name=run_name); mlflow.autolog()
SrcStartRun ==
    /\ pc = "s_open"
    /\ runs' = StartRunRuns
    /\ active' = StartRunActive
    /\ events' = Append(events, Ev("create", NewRunId, "", 0))
    /\ pc' = "s_store"
    /\ UNCHANGED <<auxVars, procVars, now, invocations, locVars, judgeVars, outVars>>

\* vectorstore = _get_vectorstore()
SrcGetVectorstore ==
    /\ pc = "s_store"
    /\ \/ /\ pc' = "s_count"
          /\ UNCHANGED <<recVars, events, outVars>>
       \/ \E msg \in ExcMessages : SrcCatch(msg, <<>>)
    /\ UNCHANGED <<auxVars, procVars, now, invocations, locVars, judgeVars>>

\* collection_count = vectorstore._collection.count(), 0 when it raises
SrcCollectionCount(raises) == IF raises THEN 0 ELSE Len(collection)

\* the count, and the HTTPException(404) of an empty collection
SrcCount ==
    /\ pc = "s_count"
    /\ \E raises \in BOOLEAN :
         LET ev == Ev("count", 0, "", IF raises THEN -1 ELSE Len(collection))
         IN  IF SrcCollectionCount(raises) = 0
             THEN /\ RaiseHttp("http404", NotFoundDetail)
                  /\ SrcFinally(<< ev >>)
             ELSE /\ events' = Append(events, ev)
                  /\ pc' = "s_llm"
                  /\ UNCHANGED <<recVars, outVars>>
    /\ UNCHANGED <<auxVars, procVars, now, invocations, locVars, judgeVars>>

\* retriever = ...; llm = get_llm()
SrcGetLlm ==
    /\ pc = "s_llm"
    /\ llm' = GetHandle(llm)
    /\ handles' = GetHandleCount(llm)
    /\ pc' = "s_retrieve"
    /\ UNCHANGED <<auxVars, impl, ticking, collection, judge_llm, recVars, now,
                   invocations, locVars, judgeVars, events, outVars>>

\* source_docs = retriever.invoke(question); sources = [...];
\* context = "\n\n".join(sources)
SrcRetrieve ==
    /\ pc = "s_retrieve"
    /\ \/ \E r \in Retrievals(request.top_k) :
            /\ docs' = r
            /\ sources' = r
            /\ context' = Join(r, BlankLine)
            /\ events' = Append(events, Ev("retrieve", 0, "", Len(r)))
            /\ pc' = "s_generate"
            /\ UNCHANGED <<recVars, outVars>>
       \/ \E msg \in ExcMessages :
            /\ SrcCatch(msg, << Ev("retrieve_exc", 0, "", 0) >>)
            /\ UNCHANGED <<docs, sources, context>>
    /\ UNCHANGED <<auxVars, procVars, now, invocations, request, query_id, start_time,
                   run_id, answer, error_occurred, latency_ms, judgeVars>>

\* response = sequence.invoke({...}); answer = response.content
SrcGenerate ==
    /\ pc = "s_generate"
    /\ \/ \E a \in Answers :
            /\ answer' = a
            /\ events' = events \o << Ev("gen_call", 0, "", 0),
                                      Ev("gen_ret", 0, "", 0) >>
            /\ pc' = "s_judge"
            /\ UNCHANGED <<recVars, outVars>>
       \/ \E msg \in ExcMessages :
            /\ SrcCatch(msg, << Ev("gen_call", 0, "", 0),
                                Ev("gen_exc", 0, "", 0) >>)
            /\ UNCHANGED answer
    /\ UNCHANGED <<auxVars, procVars, now, invocations, request, query_id, start_time,
                   run_id, sources, context, error_occurred, latency_ms, docs,
                   judgeVars>>

\* if sources:
SrcJudges == sources # <<>>

\* if sources: run_judge_evaluations(question, answer, context)
SrcJudgeGate ==
    /\ pc = "s_judge"
    /\ pc' = IF SrcJudges THEN "sj_end" ELSE "s_return"
    /\ UNCHANGED <<auxVars, procVars, recVars, now, invocations, locVars, judgeVars,
                   events, outVars>>

\* return QueryResponse(answer=answer, sources=sources), then the finally
SrcReturn ==
    /\ pc = "s_return"
    /\ outcome' = "ok" /\ detail' = <<>>
    /\ response' = [answer |-> answer, sources |-> sources, query_id |-> 0]
    /\ SrcFinally(<<>>)
    /\ pc' = "done"
    /\ UNCHANGED <<auxVars, procVars, now, invocations, locVars, judgeVars>>

\* --------------------------------------------------- src/evaluate.py
\* scores = {}; if mlflow.active_run(): mlflow.end_run()
SrcJudgeEndActive ==
    /\ pc = "sj_end"
    /\ scores' = <<>>
    /\ runs' = EndRunRuns(runs, active, "FINISHED")
    /\ active' = EndRunActive(active)
    /\ events' = events \o EndRunEvents(active)
    /\ pc' = "sj_open"
    /\ UNCHANGED <<auxVars, procVars, now, invocations, locVars, idx, score,
                   outVars>>

\* mlflow.start_run(run_name=run_name)
SrcJudgeStartRun ==
    /\ pc = "sj_open"
    /\ runs' = StartRunRuns
    /\ active' = StartRunActive
    /\ events' = Append(events, Ev("create", NewRunId, "", 0))
    /\ pc' = "sj_evaluate"
    /\ UNCHANGED <<auxVars, procVars, now, invocations, locVars, judgeVars, outVars>>

\* what evaluate() logs to the active run: one metric per scorer (the values
\* are the scorers' own, 0 stands for them)
EvaluateWrites ==
    [i \in 1..Len(Scorers) |-> Ev("log_metric", ActiveRun, Scorers[i], 0)]

\* scorers = [...]; evaluate(data=eval_data, scorers=scorers): the judge
\* model scores the answer, or the call raises into handle_query's except
SrcEvaluate ==
    /\ pc = "sj_evaluate"
    /\ \/ /\ events' = events \o << Ev("judge_call", 0, "evaluate", 0),
                                    Ev("judge_ret", 0, "evaluate", 0) >>
                              \o EvaluateWrites
          /\ pc' = "sj_close"
          /\ UNCHANGED <<recVars, outVars>>
       \/ \E msg \in ExcMessages :
            SrcCatch(msg, << Ev("judge_call", 0, "evaluate", 0),
                             Ev("judge_exc", 0, "evaluate", 0) >>)
    /\ UNCHANGED <<auxVars, procVars, now, invocations, locVars, judgeVars>>

\* mlflow.end_run(); return scores
SrcJudgeEndRun ==
    /\ pc = "sj_close"
    /\ runs' = EndRunRuns(runs, active, "FINISHED")
    /\ active' = EndRunActive(active)
    /\ events' = events \o EndRunEvents(active)
    /\ pc' = "s_return"
    /\ UNCHANGED <<auxVars, procVars, now, invocations, locVars, judgeVars, outVars>>

\* ------------------------------------------------------------------ Next
Next ==
    \/ AppEnter \/ AppOpenRun \/ AppEndRun \/ AppGetVectorstore \/ AppCount
    \/ AppGetLlm \/ AppRetrieve \/ AppGenerate \/ AppResumeRun \/ AppRecord
    \/ AppRecorded \/ AppJudgeGate \/ AppReturn
    \/ AppJudgeEnter \/ AppJudgeInvoke \/ AppJudgeWarn \/ AppJudgeTag
    \/ AppJudgeLog
    \/ AppJudgeExit
    \/ SrcEnter \/ SrcEndStale \/ SrcStartRun \/ SrcGetVectorstore \/ SrcCount
    \/ SrcGetLlm \/ SrcRetrieve \/ SrcGenerate \/ SrcJudgeGate \/ SrcReturn
    \/ SrcJudgeEndActive \/ SrcJudgeStartRun \/ SrcEvaluate \/ SrcJudgeEndRun

Spec == Init /\ [][Next]_vars

SpecClock == InitClock /\ [][Next]_vars

\* ------------------------------------------- _parse_score on its own
\* The judge responses tried: every text of these characters, MaxTextLen long
\* at most.
ParseChars == {"0", "1", "5", ".", "-", " ", "x"}
ParseTexts == UNION { [1..n -> ParseChars] : n \in 0..MaxTextLen }

InitParse ==
    /\ ticking = FALSE /\ Started
    /\ impl = "app" /\ collection = <<>>
    /\ svc = "parse" /\ parse_text \in ParseTexts /\ parse_result = 0
    /\ HealthOff /\ IngestOff /\ WorkersOff /\ CallersOff

\* score = _parse_score(response)
ParseScoreCall ==
    /\ svc = "parse"
    /\ parse_result' = ParseScore(parse_text)
    /\ svc' = "parsed"
    /\ UNCHANGED <<procVars, recVars, now, invocations, pc, locVars,
                   judgeVars, events, outVars, parse_text, healthVars,
                   ingestVars, workerVars, callerVars>>

NextParse == ParseScoreCall

SpecParse == InitParse /\ [][NextParse]_vars

\* ------------------------------------------------- check_health on its own
\* What a liveness probe may meet: a response with one of these status
\* codes, or one of these exceptions (a refused connection, the 5 s timeout).
StatusCodes == {200, 404, 500, 503}
ProbeExceptions == {"ConnectError", "ReadTimeout"}
HealthLocals == <<parseVars, ingestVars, workerVars, callerVars, procVars, recVars, now, invocations,
                  pc, locVars, judgeVars, detail, response>>

InitHealth ==
    /\ ticking = FALSE /\ Started /\ collection = <<>>
    /\ svc = "health" /\ HealthOff
    /\ ParseOff /\ IngestOff /\ WorkersOff /\ CallersOff

\* try: resp = await client.get(url); if resp.status_code != 200: status =
\* "error"; except Exception: status = "error".  cur is the status before,
\* nxt the status after.
HttpProbe(name, cur, nxt) ==
    \/ \E c \in StatusCodes :
         /\ nxt = (IF c # 200 THEN "error" ELSE cur)
         /\ events' = Append(events, Ev(name, 0, "status", c))
    \/ \E x \in ProbeExceptions :
         /\ nxt = "error"
         /\ events' = Append(events, Ev(name, 0, x, 0))

\* chroma_status = "ok"; ollama_status = "ok"; async with httpx.AsyncClient
AppHealthEnter ==
    /\ svc = "health" /\ impl = "app"
    /\ chroma_status' = "ok" /\ ollama_status' = "ok"
    /\ svc' = "h_chroma"
    /\ UNCHANGED <<HealthLocals, outcome, events, health>>

\* the heartbeat of the vector store
AppHealthChroma ==
    /\ svc = "h_chroma"
    /\ HttpProbe("chroma_probe", chroma_status, chroma_status')
    /\ svc' = "h_ollama"
    /\ UNCHANGED <<HealthLocals, outcome, ollama_status, health>>

\* A probe of the model service that keeps one status for both services.
AppHealthOllamaShared ==
    /\ svc = "h_ollama"
    /\ HttpProbe("ollama_probe", ollama_status, ollama_status')
    /\ chroma_status' = ollama_status'
    /\ svc' = "h_return"
    /\ UNCHANGED <<HealthLocals, outcome, health>>

\* the tags of the model service
AppHealthOllama ==
    /\ svc = "h_ollama"
    /\ HttpProbe("ollama_probe", ollama_status, ollama_status')
    /\ svc' = "h_return"
    /\ UNCHANGED <<HealthLocals, outcome, chroma_status, health>>

\* return HealthResponse(status="ok", chromadb=..., ollama=...)
HealthReturn ==
    /\ health' = [status |-> "ok", chromadb |-> chroma_status,
                  ollama |-> ollama_status]
    /\ outcome' = "ok"
    /\ svc' = "h_done"
    /\ UNCHANGED <<HealthLocals, events, chroma_status, ollama_status>>

AppHealthReturn == svc = "h_return" /\ HealthReturn

\* ollama_status = "ok"; chromadb_status = "ok"; async with httpx.AsyncClient
SrcHealthEnter ==
    /\ svc = "health" /\ impl = "src"
    /\ chroma_status' = "ok" /\ ollama_status' = "ok"
    /\ svc' = "sh_ollama"
    /\ UNCHANGED <<HealthLocals, outcome, events, health>>

\* the tags of the model service
SrcHealthOllama ==
    /\ svc = "sh_ollama"
    /\ HttpProbe("ollama_probe", ollama_status, ollama_status')
    /\ svc' = "sh_chroma"
    /\ UNCHANGED <<HealthLocals, outcome, chroma_status, health>>

\* The steps of the vector-store probe of src/health.py, each of which may
\* raise: OllamaEmbeddings(...), Chroma(...), _collection.count().
ChromaSteps == {"OllamaEmbeddings", "Chroma", "count"}

\* try: embeddings = ...; vectorstore = Chroma(...);
\* vectorstore._collection.count(); except Exception: chromadb_status = "error"
SrcHealthChroma ==
    /\ svc = "sh_chroma"
    /\ \/ /\ events' = Append(events, Ev("chroma_probe", 0, "status", 200))
          /\ UNCHANGED chroma_status
       \/ \E x \in ChromaSteps :
            /\ events' = Append(events, Ev("chroma_probe", 0, x, 0))
            /\ chroma_status' = "error"
    /\ svc' = "sh_return"
    /\ UNCHANGED <<HealthLocals, outcome, ollama_status, health>>

SrcHealthReturn == svc = "sh_return" /\ HealthReturn

NextHealth ==
    \/ AppHealthEnter \/ AppHealthChroma \/ AppHealthOllama \/ AppHealthReturn
    \/ SrcHealthEnter \/ SrcHealthOllama \/ SrcHealthChroma \/ SrcHealthReturn

SpecHealth == InitHealth /\ [][NextHealth]_vars

\* ---------------------------------------------- ingest_document on its own
ALLOWED_EXTENSIONS == { <<".", "p", "d", "f">>, <<".", "t", "x", "t">> }

\* The file names tried: a.pdf, a.PDF, a.txt, a.md, a, .txt and no name.
FileNames == { <<"a", ".", "p", "d", "f">>, <<"a", ".", "P", "D", "F">>,
               <<"a", ".", "t", "x", "t">>, <<"a", ".", "m", "d">>,
               <<"a">>, <<".", "t", "x", "t">>, <<>> }
\* The chunks a document may split into.
ChunkLists == { <<>>, <<ChunkA>>, <<ChunkA, ChunkB>> }

\* Path(name).suffix: the name from its last point on, empty when there is
\* no point or the last point is the first or the last character.
PathSuffix(name) ==
    LET points == { i \in 1..Len(name) : name[i] = "." }
    IN  IF points = {} THEN <<>>
        ELSE LET d == CHOOSE i \in points : \A j \in points : j <= i
             IN  IF d = 1 \/ d = Len(name) THEN <<>>
                 ELSE SubSeq(name, d, Len(name))

\* str.lower()
LowerChar(c) ==
    IF c = "P" THEN "p" ELSE IF c = "D" THEN "d" ELSE IF c = "F" THEN "f" ELSE c
Lower(t) == [i \in 1..Len(t) |-> LowerChar(t[i])]

UnsupportedDetail(sfx) ==
    <<"Unsupported file type '">> \o sfx
        \o <<"'. Only .pdf and .txt are accepted.">>

IngestLocals == <<parseVars, healthVars, workerVars, callerVars, impl, ticking, llm, judge_llm,
                  handles, recVars, now, invocations, pc, locVars, judgeVars,
                  response, filename>>

InitIngest ==
    /\ ticking = FALSE /\ Started
    /\ svc = "ingest" /\ filename \in FileNames
    /\ suffix = <<>> /\ chunks = <<>> /\ ingested = NoIngest
    /\ ParseOff /\ HealthOff /\ WorkersOff /\ CallersOff

\* an exception other than HTTPException leaves ingest_document
IngestRaises(evs) ==
    /\ events' = events \o evs
    /\ outcome' = "exception" /\ svc' = "i_done"

\* suffix = Path(file.filename or "").suffix.lower()
\* if suffix not in ALLOWED_EXTENSIONS: raise HTTPException(400, ...)
IngestCheck(next) ==
    /\ suffix' = Lower(PathSuffix(filename))
    /\ IF suffix' \notin ALLOWED_EXTENSIONS
       THEN /\ outcome' = "http400" /\ detail' = UnsupportedDetail(suffix')
            /\ svc' = "i_done"
       ELSE /\ svc' = next
            /\ UNCHANGED <<outcome, detail>>
    /\ UNCHANGED <<IngestLocals, collection, events, chunks, ingested>>

\* content = await file.read(); the temporary file is written
IngestRead(next) ==
    /\ events' = events \o << Ev("read", 0, "", 0), Ev("tempfile", 0, "", 0) >>
    /\ svc' = next
    /\ UNCHANGED <<IngestLocals, collection, outcome, detail, suffix, chunks,
                   ingested>>

\* try: the loader loads the temporary file; finally: it is unlinked; the
\* splitter cuts the documents into chunks
IngestLoad(next) ==
    /\ \/ \E c \in ChunkLists :
            /\ chunks' = c
            /\ events' = events \o << Ev("load", 0, "", 0),
                                      Ev("unlink", 0, "", 0),
                                      Ev("split", 0, "", Len(c)) >>
            /\ svc' = next
            /\ UNCHANGED outcome
       \/ /\ IngestRaises(<< Ev("load_exc", 0, "", 0), Ev("unlink", 0, "", 0) >>)
          /\ UNCHANGED chunks
    /\ UNCHANGED <<IngestLocals, collection, detail, suffix, ingested>>

\* the chunks are embedded and added to the collection, or either call raises
IngestStore(next) ==
    /\ \/ /\ collection' = collection \o chunks
          /\ events' = events \o << Ev("embed", 0, "", Len(chunks)),
                                    Ev("add", 0, "", Len(chunks)) >>
          /\ svc' = next
          /\ UNCHANGED outcome
       \/ /\ IngestRaises(<< Ev("embed_exc", 0, "", 0) >>)
          /\ UNCHANGED collection
       \/ /\ IngestRaises(<< Ev("embed", 0, "", Len(chunks)),
                             Ev("add_exc", 0, "", 0) >>)
          /\ UNCHANGED collection
    /\ UNCHANGED <<IngestLocals, detail, suffix, chunks, ingested>>

\* return IngestResponse(status="ok", chunks_stored=len(chunks), filename=...)
IngestReturn ==
    /\ ingested' = [status |-> "ok", chunks_stored |-> Len(chunks),
                    filename |-> filename]
    /\ outcome' = "ok" /\ svc' = "i_done"
    /\ UNCHANGED <<IngestLocals, collection, events, detail, suffix, chunks>>

AppIngestCheck == svc = "ingest" /\ impl = "app" /\ IngestCheck("i_read")
AppIngestRead == svc = "i_read" /\ IngestRead("i_load")
AppIngestLoad == svc = "i_load" /\ IngestLoad("i_connect")

\* embeddings = OllamaEmbeddings(...); client = get_chroma_client();
\* collection = client.get_or_create_collection(...), or 503
AppIngestConnect ==
    /\ svc = "i_connect"
    /\ \/ /\ events' = events \o << Ev("embeddings", 0, "", 0),
                                    Ev("chroma", 0, "", 0) >>
          /\ svc' = "i_store"
          /\ UNCHANGED outcome
       \/ /\ events' = events \o << Ev("embeddings", 0, "", 0),
                                    Ev("chroma_exc", 0, "", 0) >>
          /\ outcome' = "http503" /\ svc' = "i_done"
    /\ UNCHANGED <<IngestLocals, collection, detail, suffix, chunks, ingested>>

AppIngestStore == svc = "i_store" /\ IngestStore("i_return")
AppIngestReturn == svc = "i_return" /\ IngestReturn

\* embeddings = OllamaEmbeddings(...); vector_store = Chroma(...): the first
\* statements of src/ingest.py, before the extension is looked at
SrcIngestConstruct ==
    /\ svc = "ingest" /\ impl = "src"
    /\ \/ /\ events' = events \o << Ev("embeddings", 0, "", 0),
                                    Ev("chroma", 0, "", 0) >>
          /\ svc' = "si_check"
          /\ UNCHANGED outcome
       \/ IngestRaises(<< Ev("embeddings", 0, "", 0),
                          Ev("chroma_exc", 0, "", 0) >>)
    /\ UNCHANGED <<IngestLocals, collection, detail, suffix, chunks, ingested>>

SrcIngestCheck == svc = "si_check" /\ IngestCheck("si_read")
SrcIngestRead == svc = "si_read" /\ IngestRead("si_load")
SrcIngestLoad == svc = "si_load" /\ IngestLoad("si_store")
SrcIngestStore == svc = "si_store" /\ IngestStore("si_return")
SrcIngestReturn == svc = "si_return" /\ IngestReturn

NextIngest ==
    \/ AppIngestCheck \/ AppIngestRead \/ AppIngestLoad \/ AppIngestConnect
    \/ AppIngestStore \/ AppIngestReturn
    \/ SrcIngestConstruct \/ SrcIngestCheck \/ SrcIngestRead \/ SrcIngestLoad
    \/ SrcIngestStore \/ SrcIngestReturn

SpecIngest == InitIngest /\ [][NextIngest]_vars

\* ------------------------------------- overlapping invocations of handle_query
\* Each worker process runs one invocation; the tracking store (runs) is
\* shared, the stack of active runs belongs to the process.  Only the calls
\* of the recorder are kept, in the order handle_query makes them.
WorkerLocals == <<parseVars, healthVars, ingestVars, callerVars, procVars, active, now,
                  invocations, pc, locVars, judgeVars, outVars>>

InitWorkers ==
    /\ ticking = FALSE /\ Started /\ collection = <<ChunkA>>
    /\ svc = "workers"
    /\ w_pc = [w \in Workers |-> "idle"]
    /\ w_active = [w \in Workers |-> <<>>]
    /\ w_run = [w \in Workers |-> 0]
    /\ ParseOff /\ HealthOff /\ IngestOff /\ CallersOff

\* One stack of active runs for every process.
StackShared(w) == 1

\* The stack of active runs worker w reads and writes: its own process's.
StackOf(w) == w
Stack(w) == w_active[StackOf(w)]

At(w, here, there) == w_pc[w] = here /\ w_pc' = [w_pc EXCEPT ![w] = there]

\* mlflow.start_run() by worker w
WStartRun(w) ==
    /\ runs' = Append(runs, [status |-> "RUNNING", owner |-> w])
    /\ w_active' = [w_active EXCEPT ![StackOf(w)] = Append(@, Len(runs) + 1)]
    /\ UNCHANGED events

\* mlflow.start_run(run_id=r) by worker w
WResumeRun(w, r) ==
    /\ runs' = ResumeRunRuns(r)
    /\ w_active' = [w_active EXCEPT ![StackOf(w)] = Append(@, r)]
    /\ UNCHANGED events

\* mlflow.end_run(status) by worker w
WEndRun(w, status) ==
    /\ runs' = EndRunRuns(runs, Stack(w), status)
    /\ w_active' = [w_active EXCEPT ![StackOf(w)] = EndRunActive(@)]
    /\ events' = events \o (IF Stack(w) = <<>> THEN <<>>
                            ELSE << Ev("close", Last(Stack(w)), "", w) >>)

\* mlflow.active_run() of worker w, the run its writes through the fluent
\* interface go to (0 stands for the run the recorder starts when none is
\* active)
ActiveRunOf(w) == IF Stack(w) = <<>> THEN 0 ELSE Last(Stack(w))

\* app/query.py: run = mlflow.start_run(); run_id = run.info.run_id
WAppOpenRun(w) ==
    /\ impl = "app" /\ At(w, "idle", "a_end")
    /\ WStartRun(w)
    /\ w_run' = [w_run EXCEPT ![w] = Len(runs) + 1]
    /\ UNCHANGED <<WorkerLocals, svc>>

\* mlflow.end_run()
WAppEndRun(w) ==
    /\ At(w, "a_end", "a_pipeline")
    /\ WEndRun(w, "FINISHED")
    /\ UNCHANGED <<WorkerLocals, svc, w_run>>

\* the try block: 404 on an empty collection, or on to the record
WAppPipeline(w) ==
    /\ \/ At(w, "a_pipeline", "a_resume")
       \/ At(w, "a_pipeline", "done")
    /\ UNCHANGED <<WorkerLocals, svc, runs, events, w_active, w_run>>

\* with mlflow.start_run(run_id=run_id):
WAppResumeRun(w) ==
    /\ At(w, "a_resume", "a_record")
    /\ WResumeRun(w, w_run[w])
    /\ UNCHANGED <<WorkerLocals, svc, w_run>>

\* the tags, params, metrics and artifact of lines 99-111: written, or the
\* first of them raises
WAppRecord(w) ==
    /\ \/ /\ At(w, "a_record", "a_exit")
          /\ events' = events \o
                [i \in 1..Len(AppWrites) |->
                    Ev(AppWrites[i].op, ActiveRunOf(w), AppWrites[i].key, w)]
          /\ UNCHANGED <<runs, w_active>>
       \/ /\ At(w, "a_record", "done")
          /\ WEndRun(w, "FAILED")
    /\ UNCHANGED <<WorkerLocals, svc, w_run>>

\* the with block ends; if not error_occurred and sources: the judge
WAppExit(w) ==
    /\ \/ At(w, "a_exit", "j_resume")
       \/ At(w, "a_exit", "done")
    /\ WEndRun(w, "FINISHED")
    /\ UNCHANGED <<WorkerLocals, svc, w_run>>

\* app/evaluate.py: with mlflow.start_run(run_id=run_id):
WAppJudgeResume(w) ==
    /\ At(w, "j_resume", "j_log")
    /\ WResumeRun(w, w_run[w])
    /\ UNCHANGED <<WorkerLocals, svc, w_run>>

\* mlflow.log_metric(metric_name, score) for the three metrics, or a write
\* raises
WAppJudgeLog(w) ==
    /\ \/ /\ At(w, "j_log", "j_exit")
          /\ events' = events \o
                [i \in 1..Len(MetricNames) |->
                    Ev("log_metric", ActiveRunOf(w), MetricNames[i], w)]
          /\ UNCHANGED <<runs, w_active>>
       \/ /\ At(w, "j_log", "done")
          /\ WEndRun(w, "FAILED")
    /\ UNCHANGED <<WorkerLocals, svc, w_run>>

\* the with block of run_judge_evaluations ends
WAppJudgeExit(w) ==
    /\ At(w, "j_exit", "done")
    /\ WEndRun(w, "FINISHED")
    /\ UNCHANGED <<WorkerLocals, svc, w_run>>

\* src/query.py: if mlflow.active_run(): mlflow.end_run()
WSrcEndStale(w) ==
    /\ impl = "src" /\ At(w, "idle", "s_open")
    /\ WEndRun(w, "FINISHED")
    /\ UNCHANGED <<WorkerLocals, svc, w_run>>

\* mlflow.start_run(run_name=run_name)
WSrcStartRun(w) ==
    /\ At(w, "s_open", "s_pipeline")
    /\ WStartRun(w)
    /\ UNCHANGED <<WorkerLocals, svc, w_run>>

\* the try block up to the judge: on to run_judge_evaluations, or out
\* through finally: mlflow.end_run()
WSrcPipeline(w) ==
    /\ \/ /\ At(w, "s_pipeline", "sj_end")
          /\ UNCHANGED <<runs, w_active, events>>
       \/ /\ At(w, "s_pipeline", "done")
          /\ WEndRun(w, "FINISHED")
    /\ UNCHANGED <<WorkerLocals, svc, w_run>>

\* src/evaluate.py: if mlflow.active_run(): mlflow.end_run()
WSrcJudgeEndActive(w) ==
    /\ At(w, "sj_end", "sj_open")
    /\ WEndRun(w, "FINISHED")
    /\ UNCHANGED <<WorkerLocals, svc, w_run>>

\* mlflow.start_run(run_name=run_name)
WSrcJudgeStartRun(w) ==
    /\ At(w, "sj_open", "sj_evaluate")
    /\ WStartRun(w)
    /\ UNCHANGED <<WorkerLocals, svc, w_run>>

\* evaluate(...) writes the scorers' metrics, or raises into the except and
\* the finally of handle_query
WSrcEvaluate(w) ==
    /\ \/ /\ At(w, "sj_evaluate", "sj_close")
          /\ events' = events \o
                [i \in 1..Len(Scorers) |->
                    Ev("log_metric", ActiveRunOf(w), Scorers[i], w)]
          /\ UNCHANGED <<runs, w_active>>
       \/ /\ At(w, "sj_evaluate", "done")
          /\ WEndRun(w, "FINISHED")
    /\ UNCHANGED <<WorkerLocals, svc, w_run>>

\* mlflow.end_run() of run_judge_evaluations
WSrcJudgeEndRun(w) ==
    /\ At(w, "sj_close", "s_finally")
    /\ WEndRun(w, "FINISHED")
    /\ UNCHANGED <<WorkerLocals, svc, w_run>>

\* finally: mlflow.end_run()
WSrcFinally(w) ==
    /\ At(w, "s_finally", "done")
    /\ WEndRun(w, "FINISHED")
    /\ UNCHANGED <<WorkerLocals, svc, w_run>>

NextWorkers ==
    \E w \in Workers :
        \/ WAppOpenRun(w) \/ WAppEndRun(w) \/ WAppPipeline(w)
        \/ WAppResumeRun(w) \/ WAppRecord(w) \/ WAppExit(w)
        \/ WAppJudgeResume(w) \/ WAppJudgeLog(w) \/ WAppJudgeExit(w)
        \/ WSrcEndStale(w) \/ WSrcStartRun(w) \/ WSrcPipeline(w)
        \/ WSrcJudgeEndActive(w) \/ WSrcJudgeStartRun(w) \/ WSrcEvaluate(w)
        \/ WSrcJudgeEndRun(w) \/ WSrcFinally(w)

SpecWorkers == InitWorkers /\ [][NextWorkers]_vars

\* ------------------------------------ get_llm / get_judge_llm called at once
\* Each caller is a thread that calls the function once; the steps are the
\* reads and the write of the module global, in the order of the function.
CallerLocals == <<parseVars, healthVars, ingestVars, workerVars, impl,
                  ticking, collection, recVars, now, invocations, pc,
                  locVars, judgeVars, outVars, events, svc, h_fn>>

InitCallers ==
    /\ ticking = FALSE /\ Started /\ collection = <<>>
    /\ svc = "callers"
    /\ h_fn \in (IF impl = "app" THEN {"get_llm", "get_judge_llm"}
                 ELSE {"get_llm"})
    /\ h_pc = [c \in Callers |-> "idle"]
    /\ h_new = [c \in Callers |-> 0] /\ h_ret = [c \in Callers |-> 0]
    /\ h_after = [c \in Callers |-> {}]
    /\ ParseOff /\ HealthOff /\ IngestOff /\ WorkersOff

\* the module global of the function called: _llm or _judge_llm
Cached == IF h_fn = "get_llm" THEN llm ELSE judge_llm

Step(c, here, there) == h_pc[c] = here /\ h_pc' = [h_pc EXCEPT ![c] = there]

\* the call starts
CallerEnter(c) ==
    /\ svc = "callers" /\ Step(c, "idle", "check")
    /\ h_after' = [h_after EXCEPT ![c] = { d \in Callers : h_pc[d] = "done" }]
    /\ UNCHANGED <<CallerLocals, llm, judge_llm, handles, h_new, h_ret>>

\* if _llm is None:
CallerCheck(c) ==
    /\ \/ Cached = 0 /\ Step(c, "check", "construct")
       \/ Cached # 0 /\ Step(c, "check", "return")
    /\ UNCHANGED <<CallerLocals, llm, judge_llm, handles, h_new, h_ret, h_after>>

\* OllamaLLM(model=..., base_url=...): a new handle
CallerConstruct(c) ==
    /\ Step(c, "construct", "store")
    /\ handles' = handles + 1
    /\ h_new' = [h_new EXCEPT ![c] = handles + 1]
    /\ UNCHANGED <<CallerLocals, llm, judge_llm, h_ret, h_after>>

\* The construction without the assignment to the global.
CallerStoreSkipped(c) ==
    /\ Step(c, "store", "return")
    /\ UNCHANGED <<CallerLocals, llm, judge_llm, handles, h_new, h_ret, h_after>>

\* _llm = <the new handle>
CallerStore(c) ==
    /\ Step(c, "store", "return")
    /\ IF h_fn = "get_llm"
       THEN llm' = h_new[c] /\ UNCHANGED judge_llm
       ELSE judge_llm' = h_new[c] /\ UNCHANGED llm
    /\ UNCHANGED <<CallerLocals, handles, h_new, h_ret, h_after>>

\* return _llm
CallerReturn(c) ==
    /\ Step(c, "return", "done")
    /\ h_ret' = [h_ret EXCEPT ![c] = Cached]
    /\ UNCHANGED <<CallerLocals, llm, judge_llm, handles, h_new, h_after>>

NextCallers ==
    \E c \in Callers :
        \/ CallerEnter(c) \/ CallerCheck(c) \/ CallerConstruct(c)
        \/ CallerStore(c) \/ CallerReturn(c)

SpecCallers == InitCallers /\ [][NextCallers]_vars

\* ------------------------------------------------------------ properties
EvIdx == 1..Len(events)
Happened(e) == \E i \in EvIdx : events[i].e = e
Writes == {"set_tag", "log_param", "log_metric", "log_text"}
Left == pc = "done"
\* the runs the current invocation created
OwnRuns == { r \in DOMAIN runs : runs[r].owner = invocations }
Closed(r) == runs[r].status \in {"FINISHED", "FAILED"}
\* the current invocation wrote (op, key) to run r
Wrote(r, op, k) ==
    \E i \in EvIdx : events[i].e = op /\ events[i].run = r /\ events[i].key = k
CountRaised == \E i \in EvIdx : events[i].e = "count" /\ events[i].val = -1
CountZero == \E i \in EvIdx : events[i].e = "count" /\ events[i].val = 0

\* C1: one invocation of handle_query creates exactly one Run, whatever its
\* outcome, in app/query.py and in src/query.py (run_judge_evaluations
\* included).  The statement of the claim; src/evaluate.py breaks it.
C1_ExactlyOneRun == Left => Cardinality(OwnRuns) = 1

\* C2: in app/, once the Run of the invocation has been closed, no start_run
\* opens it again.  The statement of the claim; app/query.py breaks it.
C2_NeverReopened ==
    impl = "app" =>
        \A i, j \in EvIdx :
            (i < j /\ events[i].e = "close" /\ events[j].e = "open")
                => events[j].run # events[i].run

\* C3: when control has left handle_query (return, 404, 500, or an exception
\* raised while recording or judging), every Run the invocation opened is
\* closed and no run is active, in app/ and in src/.
C3_RunsClosedOnExit ==
    Left => /\ \A r \in OwnRuns : Closed(r)
            /\ active = <<>>

\* C3 witness: src/ has left with a 500 raised by the judge evaluation, the
\* invocation having opened two runs.
C3_Witness ==
    /\ Left /\ impl = "src" /\ outcome = "http500"
    /\ Happened("judge_exc")
    /\ Cardinality(OwnRuns) = 2

\* C4: in app/, no close of the Run precedes a write to that Run.  The
\* statement of the claim; app/query.py breaks it.
C4_NoCloseBeforeWrite ==
    impl = "app" =>
        \A i, j \in EvIdx :
            (i < j /\ events[i].e = "close" /\ events[j].e \in Writes)
                => events[j].run # events[i].run

\* C5: the judge model is invoked only after the generation call of the
\* invocation returned without exception; when retrieval or generation
\* raised, run_judge_evaluations is not entered at all.
JudgePcs == {"j_enter", "j_invoke", "j_warn", "j_tag", "j_log", "j_exit",
             "sj_end", "sj_open", "sj_evaluate", "sj_close"}
C5_JudgeAfterGeneration ==
    /\ \A j \in EvIdx :
         events[j].e = "judge_call" =>
             \E i \in 1..(j - 1) : events[i].e = "gen_ret"
    /\ (Happened("gen_exc") \/ Happened("retrieve_exc") \/ error_occurred)
         => /\ ~Happened("judge_call")
            /\ pc \notin JudgePcs

\* C5 witness: the judge has been called, after a generation that returned.
C5_Witness == Happened("judge_call") /\ Happened("gen_ret")

\* C6: when count() returns 0, the invocation ends with the 404, neither the
\* generation model nor the judge model is invoked, and no metric is written.
C6_EmptyCollection ==
    CountZero =>
        /\ ~Happened("gen_call") /\ ~Happened("judge_call")
        /\ ~Happened("log_metric")
        /\ Left /\ outcome = "http404"

\* C6 witness: an invocation on an empty collection has left with the 404.
C6_Witness == Left /\ CountZero /\ outcome = "http404" /\ Len(collection) = 0

\* C7: in app/, the Run of an invocation that failed fast on an empty
\* collection exists, carries a tag marking the condition, and is closed.
\* The statement of the claim; app/query.py sets no tag on that path.
C7_EmptyCollectionTagged ==
    (impl = "app" /\ Left /\ outcome = "http404") =>
        /\ run_id \in OwnRuns /\ Closed(run_id)
        /\ \E i \in EvIdx : events[i].e = "set_tag" /\ events[i].run = run_id

\* C8: in app/, a failure other than the 404 reaches the caller only as the
\* HTTP 500 whose detail is the captured answer text, after the Run got the
\* error tag, question, top_k, latency_ms and the answer artifact and was
\* closed; nothing else escapes.  The statement of the claim; an exception
\* of a recorder write escapes app/query.py as it is.
C8_OnlyHttp500 ==
    (impl = "app" /\ Left /\ outcome \notin {"ok", "http404"}) =>
        /\ outcome = "http500" /\ detail = answer
        /\ Wrote(run_id, "set_tag", "error")
        /\ Wrote(run_id, "log_param", "question")
        /\ Wrote(run_id, "log_param", "top_k")
        /\ Wrote(run_id, "log_metric", "latency_ms")
        /\ Wrote(run_id, "log_text", "answer.txt")
        /\ Closed(run_id)

\* C9: a vector store whose count() or retrieval raises ends the invocation
\* as the HTTP 500, never as the 404.  The statement of the claim; both
\* handle_query turn a count() that raises into a count of 0.
C9_UnreachableIs500 ==
    (Left /\ (CountRaised \/ Happened("retrieve_exc"))) => outcome = "http500"

\* C10: in app/, a judge call that raises for one metric costs that metric
\* only: its score is the sentinel, every other metric is scored from its
\* own response, all three are attempted, and the exception leaves neither
\* run_judge_evaluations nor handle_query (the only exception that does is
\* one raised by a recorder write).
AllMetrics == { MetricNames[i] : i \in 1..Len(MetricNames) }
C10_JudgeFailureIsolated ==
    impl = "app" =>
        /\ \A m \in DOMAIN scores : \A i \in EvIdx :
             events[i].key = m =>
                 /\ events[i].e = "judge_exc" => scores[m] = Sentinel
                 /\ events[i].e = "judge_ret"
                        => scores[m] = ParseScore(events[i].val)
        /\ outcome = "exception" => Last(events).e = "close"
                                    /\ events[Len(events) - 1].e = "write_exc"
        /\ (Left /\ Happened("judge_exc") /\ outcome # "exception") =>
               /\ outcome = "ok"
               /\ DOMAIN scores = AllMetrics
               /\ \A m \in AllMetrics :
                      Cardinality({ i \in EvIdx : events[i].e = "judge_call"
                                                  /\ events[i].key = m }) = 1

\* C10 witness: the judge raised for faithfulness, answer relevance was
\* scored 0.85 from its own response, and handle_query returned.
C10_Witness ==
    /\ impl = "app" /\ Left /\ outcome = "ok"
    /\ \E i \in EvIdx : events[i].e = "judge_exc"
                        /\ events[i].key = "faithfulness_score"
    /\ DOMAIN scores = AllMetrics
    /\ scores["faithfulness_score"] = Sentinel
    /\ scores["answer_relevance_score"] = 850

\* C11: in src/, a judge evaluation that raises inside run_judge_evaluations
\* is no pipeline failure: handle_query still returns the answer and the
\* sources.  The statement of the claim; src/query.py turns it into the 500.
C11_SrcJudgeFailureReturns ==
    (impl = "src" /\ Left /\ Happened("judge_exc")) =>
        /\ outcome = "ok"
        /\ response.answer = answer /\ response.sources = sources

\* run_judge_evaluations of app/evaluate.py has returned to handle_query
AppJudgeReturned ==
    /\ impl = "app" /\ pc \in {"a_return", "done"}
    /\ outcome # "exception"
    /\ Happened("judge_call")

\* C12: every completed call of run_judge_evaluations of app/evaluate.py
\* returns a mapping with exactly the three metric keys, each value in
\* [0.0, 1.0] or the sentinel -1.0, and each value has been written once as
\* a metric of that name to the Run, whatever the judge answered or raised.
C12_ThreeScoresLogged ==
    AppJudgeReturned =>
        /\ DOMAIN scores = AllMetrics
        /\ \A m \in AllMetrics :
             /\ scores[m] = Sentinel \/ (0 <= scores[m] /\ scores[m] <= 1000)
             /\ Cardinality({ i \in EvIdx : /\ events[i].e = "log_metric"
                                            /\ events[i].key = m }) = 1
             /\ \E i \in EvIdx : /\ events[i].e = "log_metric"
                                 /\ events[i].key = m
                                 /\ events[i].run = run_id
                                 /\ events[i].val = scores[m]

\* C12 witness: a completed call with one judge exception, one unparseable
\* response (1.5) and one score in range.
C12_Witness ==
    /\ AppJudgeReturned
    /\ \E i \in EvIdx : events[i].e = "judge_exc"
                        /\ events[i].key = "faithfulness_score"
    /\ \E i \in EvIdx : /\ events[i].e = "judge_ret"
                        /\ events[i].key = "answer_relevance_score"
                        /\ events[i].val = <<"1", ".", "5">>
    /\ scores["context_relevance_score"] = 1000

\* The first number a text holds, read as a reader does: it starts at the
\* first digit, a "-" right before it (at the start of the text or after a
\* blank) is its sign, and it runs over the digits, one point and the digits
\* after the point.
RefDigitAt(t, i) == i >= 1 /\ i <= Len(t) /\ t[i] \in Digits
RefHasNumber(t) == \E i \in 1..Len(t) : RefDigitAt(t, i)
RefStart(t) == CHOOSE i \in 1..Len(t) :
                   RefDigitAt(t, i) /\ \A j \in 1..(i - 1) : ~RefDigitAt(t, j)
RefNegative(t) ==
    LET s == RefStart(t)
    IN  s > 1 /\ t[s - 1] = "-" /\ (s = 2 \/ t[s - 2] = " ")
\* the last digit of the whole part, the last digit of the part after the point
RefWholeEnd(t) ==
    CHOOSE e \in RefStart(t)..Len(t) :
        /\ \A i \in RefStart(t)..e : RefDigitAt(t, i)
        /\ ~RefDigitAt(t, e + 1)
RefHasPoint(t) == RefWholeEnd(t) < Len(t) /\ t[RefWholeEnd(t) + 1] = "."
RefFracEnd(t) ==
    CHOOSE e \in (RefWholeEnd(t) + 1)..Len(t) :
        /\ \A i \in (RefWholeEnd(t) + 2)..e : RefDigitAt(t, i)
        /\ ~RefDigitAt(t, e + 1)
\* its absolute value, in thousandths (three digits after the point count)
RefMagnitude(t) ==
    LET whole == IntOf(t, RefStart(t), RefWholeEnd(t) + 1)
    IN  IF RefHasPoint(t)
        THEN whole * 1000 + FracOf(t, RefWholeEnd(t) + 2, RefFracEnd(t) + 1)
        ELSE whole * 1000
\* the score the claim gives a response: its first number when that lies in
\* [0.0, 1.0], the sentinel otherwise
RefScore(t) ==
    IF ~RefHasNumber(t) THEN Sentinel
    ELSE IF RefNegative(t) /\ RefMagnitude(t) # 0 THEN Sentinel
    ELSE IF RefMagnitude(t) > 1000 THEN Sentinel
    ELSE RefMagnitude(t)

\* C13: _parse_score returns the first number of the response when that
\* number lies in [0.0, 1.0], and the sentinel -1.0 when the response holds
\* no number in range (no digit at all, or a number such as 1.5).  The
\* statement of the claim; the pattern of _parse_score leaves the sign out
\* of the match, so that "-1" is scored 1.0.
C13_FirstNumberDecides ==
    svc = "parsed" => parse_result = RefScore(parse_text)


\* the current invocation wrote (op, key) with value v to run r
WroteVal(r, op, k, v) ==
    \E i \in EvIdx : /\ events[i].e = op /\ events[i].run = r
                     /\ events[i].key = k /\ events[i].val = v

\* C14: in app/, against a non-empty collection, when handle_query has ended
\* (returned or raised) its Run holds the params question and top_k of the
\* request, the generation and judge model identifiers, latency_ms, the number
\* of chunks retrieved, the answer length and the answer text artifact.  The
\* statement of the claim; it fails when collection.count() raises (the Run
\* stays empty and the caller gets 404) and when a write raises.
C14_RunRecordsInvocation ==
    (impl = "app" /\ Left /\ collection # <<>>) =>
        /\ WroteVal(run_id, "log_param", "question", request.question)
        /\ WroteVal(run_id, "log_param", "top_k", request.top_k)
        /\ WroteVal(run_id, "set_tag", "generation_model", OLLAMA_MODEL)
        /\ WroteVal(run_id, "set_tag", "judge_model", OLLAMA_JUDGE_MODEL)
        /\ WroteVal(run_id, "log_metric", "latency_ms", latency_ms)
        /\ WroteVal(run_id, "log_metric", "num_chunks_retrieved", Len(sources))
        /\ WroteVal(run_id, "log_metric", "answer_length_chars", Len(answer))
        /\ WroteVal(run_id, "log_text", "answer.txt", answer)


\* the Run of the current invocation: the one handle_query itself started
FirstRun ==
    LET i == CHOOSE i \in EvIdx :
                 events[i].e = "create" /\ \A j \in 1..(i - 1) : events[j].e # "create"
    IN  events[i].run

\* the judge metrics of the running application: the three prompts of
\* app/evaluate.py, the four scorers of src/evaluate.py
JudgeMetrics ==
    IF impl = "app" THEN AllMetrics
    ELSE { Scorers[i] : i \in 1..Len(Scorers) }

\* C15: in app/ and in src/, an invocation whose retrieval and generation
\* finished without error has run judge scoring when it ends, and its Run
\* holds a score for every judge metric, whatever the retrieval returned.
\* The statement of the claim; src/evaluate.py writes the scores to a second
\* run, both applications skip judging on a retrieval of no chunk, and app/
\* leaves before judging when a write of the record raises.
C15_JudgeAlwaysScores ==
    (Left /\ Happened("gen_ret")) =>
        /\ Happened("judge_call")
        /\ \A m \in JudgeMetrics : Wrote(FirstRun, "log_metric", m)


\* the first n of the chunk texts, in their order, a blank line between two
\* that follow each other
RECURSIVE BlankLineJoined(_, _)
BlankLineJoined(texts, n) ==
    IF n = 0 THEN <<>>
    ELSE IF n = 1 THEN texts[1]
    ELSE BlankLineJoined(texts, n - 1) \o <<"\n", "\n">> \o texts[n]

\* C16: when handle_query has returned its response, the sources of the
\* response are the chunk texts the vector store returned, in its order, and
\* the Context handed to judge scoring is those texts in that order with a
\* blank line between them, in app/ and in src/.
C16_SourcesInStoreOrder ==
    (Left /\ outcome = "ok") =>
        /\ response.sources = docs
        /\ Happened("judge_call") => context = BlankLineJoined(docs, Len(docs))

\* C16 witness: the store returned chunk B before chunk A, the judge was
\* called, and the response went out.
C16_Witness ==
    /\ Left /\ outcome = "ok" /\ Happened("judge_call")
    /\ docs = <<ChunkB, ChunkA>>
    /\ response.sources = <<ChunkB, ChunkA>>
    /\ context = ChunkB \o <<"\n", "\n">> \o ChunkA


\* a probe of check_health met a status other than 200, or an exception
ProbeFailed(name) ==
    \E i \in EvIdx : /\ events[i].e = name
                     /\ events[i].key = "status" => events[i].val # 200
ProbesMade == Happened("chroma_probe") /\ Happened("ollama_probe")

\* C17: check_health does not raise: whatever the two probes met (200,
\* another status, an exception, the timeout), control reaches the return,
\* and the response returned says "error" for the vector store exactly when
\* the probe of the vector store failed and "error" for the model service
\* exactly when the probe of the model service failed, "ok" otherwise; in
\* app/ and in src/.
C17_HealthNeverRaises ==
    /\ ProbesMade => svc \in {"h_return", "sh_return", "h_done"}
    /\ svc = "h_done" =>
         /\ outcome = "ok" /\ ProbesMade
         /\ health.chromadb = (IF ProbeFailed("chroma_probe") THEN "error" ELSE "ok")
         /\ health.ollama = (IF ProbeFailed("ollama_probe") THEN "error" ELSE "ok")

\* C17 witness: app/ returned after a heartbeat answered 200 and a model
\* service that timed out.
C17_Witness ==
    /\ svc = "h_done" /\ impl = "app"
    /\ ~ProbeFailed("chroma_probe")
    /\ \E i \in EvIdx : events[i].e = "ollama_probe" /\ events[i].key = "ReadTimeout"
    /\ health = [status |-> "ok", chromadb |-> "ok", ollama |-> "error"]


\* what ingest_document does to process a document
Processing == {"read", "tempfile", "load", "load_exc", "split", "embeddings",
               "chroma", "chroma_exc", "embed", "embed_exc", "add", "add_exc"}

\* C18: ingest_document on a file whose extension is neither .pdf nor .txt
\* fails with HTTP 400, and nothing of the processing happens in that call:
\* no read of the content, no temporary file, no construction of or call to
\* the embedding service or the vector store; in app/ and in src/.  The
\* statement of the claim; src/ingest.py constructs both before it looks at the suffix.
C18_UnsupportedRejectedFirst ==
    (svc # "off" /\ Lower(PathSuffix(filename)) \notin ALLOWED_EXTENSIONS) =>
        /\ \A i \in EvIdx : events[i].e \notin Processing
        /\ svc = "i_done" => outcome = "http400"


\* the clock at an event of the current invocation
TimeOf(e) == events[CHOOSE i \in EvIdx : events[i].e = e].val

\* C19: in app/, the latency_ms written to the Run is not negative and is the
\* time from just before retrieval (the call of the chain) to just after
\* generation (its return), in milliseconds: no less than the generation
\* took, and nothing of the time spent opening the Run or judging.  The
\* statement of the claim; start_time is read before the Run is opened.
C19_LatencyCoversGeneration ==
    (impl = "app" /\ Happened("gen_ret")) =>
        \A i \in EvIdx :
            (events[i].e = "log_metric" /\ events[i].key = "latency_ms") =>
                /\ events[i].val >= 0
                /\ events[i].val = (TimeOf("gen_ret") - TimeOf("gen_call")) * 1000


\* C20: with two invocations of handle_query overlapping, each in its worker
\* process, every tag, param, metric and artifact an invocation writes lands
\* on a Run that invocation started, and every Run an invocation closes is
\* one it started; in app/ (runs resumed by run_id) and in src/ (the active
\* run of the process).
C20_OverlapKeepsRunsApart ==
    svc = "workers" =>
        \A i \in EvIdx :
            events[i].e \in Writes \cup {"close"} =>
                /\ events[i].run \in DOMAIN runs
                /\ runs[events[i].run].owner = events[i].val

\* C20 witness: in src/, both workers have written their judge metrics while
\* the Run of the other was not yet closed by its finally.
C20_Witness ==
    /\ svc = "workers" /\ impl = "src"
    /\ w_pc[1] = "sj_close" /\ w_pc[2] = "sj_close"
    /\ \A w \in Workers :
         \E i \in EvIdx : /\ events[i].e = "log_metric" /\ events[i].val = w
                          /\ runs[events[i].run].status = "RUNNING"


\* a call of get_llm / get_judge_llm has started, is over, was over before
\* another started
CallStarted(c) == h_pc[c] # "idle"
CallOver(c) == h_pc[c] = "done"
CallBefore(c, d) == CallStarted(d) /\ c \in h_after[d]
\* no two of the calls made so far overlapped
SequentialCalls ==
    \A c, d \in Callers :
        (c # d /\ CallStarted(c) /\ CallStarted(d)) =>
            CallBefore(c, d) \/ CallBefore(d, c)

\* C21: get_llm and get_judge_llm give every caller a handle; in a series of
\* calls none of which overlaps another the handle is constructed once and
\* every call returns it; when only the two first calls overlap, at most two
\* handles are constructed, and the calls that start after both are over all
\* return the one handle the global then holds.
C21_HandleCachedOnce ==
    svc = "callers" =>
        /\ \A c \in Callers : CallOver(c) => h_ret[c] # 0
        /\ SequentialCalls =>
             /\ handles <= 1
             /\ (\E c \in Callers : CallOver(c)) => handles = 1
             /\ \A c, d \in Callers :
                  (CallOver(c) /\ CallOver(d)) => h_ret[c] = h_ret[d]
        /\ \A a, b \in Callers :
             (/\ a # b /\ CallOver(a) /\ CallOver(b)
              /\ \A c \in Callers \ {a, b} :
                   CallStarted(c) => CallBefore(a, c) /\ CallBefore(b, c))
             => /\ handles <= 2
                /\ \A c \in Callers \ {a, b} :
                     CallOver(c) => h_ret[c] = Cached

\* C21 witness: callers 1 and 2 raced and got two different handles, and
\* caller 3, started after both, got the cached one.
C21_Witness ==
    /\ svc = "callers" /\ h_fn = "get_judge_llm"
    /\ CallOver(1) /\ CallOver(2) /\ CallOver(3)
    /\ h_ret[1] # h_ret[2] /\ handles = 2
    /\ CallBefore(1, 3) /\ CallBefore(2, 3)
    /\ h_ret[3] = Cached


\* the Run of the invocation carries the unparseable tag of metric m
Tagged(m) == WroteVal(run_id, "set_tag", WarningTag(m), "true")

\* C22: in app/evaluate.py, for each of the three metrics, the score logged
\* on the Run is the sentinel -1.0 exactly when the Run carries the tag
\* <metric>_parse_warning, whether the response did not parse into
\* [0.0, 1.0] or the judge call raised; a metric logged with a score in
\* [0.0, 1.0] has no tag; and when run_judge_evaluations has returned this
\* holds of all three metrics and the scores it returns.
C22_WarningIffSentinel ==
    impl = "app" =>
        /\ \A i \in EvIdx :
             (events[i].e = "log_metric" /\ events[i].key \in AllMetrics) =>
                 /\ events[i].val = Sentinel <=> Tagged(events[i].key)
                 /\ (0 <= events[i].val /\ events[i].val <= 1000)
                        => ~Tagged(events[i].key)
        /\ AppJudgeReturned =>
             \A m \in AllMetrics : scores[m] = Sentinel <=> Tagged(m)

\* C22 witness: the call returned with one metric whose judge call raised,
\* one whose response ("1.5") did not parse into the range, both tagged and
\* scored -1.0, and one scored 0.85 without a tag.
C22_Witness ==
    /\ AppJudgeReturned
    /\ \E i \in EvIdx : events[i].e = "judge_exc"
                        /\ events[i].key = "faithfulness_score"
    /\ \E i \in EvIdx : /\ events[i].e = "judge_ret"
                        /\ events[i].key = "answer_relevance_score"
                        /\ events[i].val = <<"1", ".", "5">>
    /\ Tagged("faithfulness_score") /\ Tagged("answer_relevance_score")
    /\ scores["faithfulness_score"] = Sentinel
    /\ scores["answer_relevance_score"] = Sentinel
    /\ scores["context_relevance_score"] = 850
    /\ ~Tagged("context_relevance_score")


\* C23: in app/, the query_id of a returned response is the value written on
\* the Run of the invocation as tag and as param query_id; it is generated
\* on entry, before any other step, and stays the same throughout the
\* invocation; and the run_id of an invocation names a run that this
\* invocation created, never one of another invocation.
C23_QueryIdConsistent ==
    (impl = "app" /\ pc # "idle") =>
        /\ (Left /\ outcome = "ok") =>
             /\ response.query_id = query_id
             /\ WroteVal(run_id, "set_tag", "query_id", response.query_id)
             /\ WroteVal(run_id, "log_param", "query_id", response.query_id)
        /\ query_id = invocations
        /\ \A i \in EvIdx :
             (events[i].e \in Writes /\ events[i].key = "query_id")
                 => events[i].val = query_id
        /\ run_id # 0 => /\ run_id \in DOMAIN runs
                         /\ runs[run_id].owner = invocations
                         /\ \A i \in EvIdx : events[i].e = "create"
                                                 => events[i].run = run_id

\* C23 witness: the second invocation of the process returned its response,
\* its Run being another than the Run of the first.
C23_Witness ==
    /\ impl = "app" /\ Left /\ outcome = "ok"
    /\ invocations = 2 /\ response.query_id = 2
    /\ run_id = 2 /\ runs[1].owner = 1
    /\ WroteVal(2, "set_tag", "query_id", 2)

====
